---- MODULE Spec2Model ----
(***************************************************************************)
(* Zip4Cloud: the compress direction (compressor.py,                       *)
(* AdvancedVolumeCompressor) and the decompress direction                  *)
(* (decompressor.py, SimpleVolumeDecompressor).                            *)
(*                                                                         *)
(* Representation.  A file or directory NAME is the sequence of its        *)
(* dot-separated segments, <<"x", ".zip", ".001">> for x.zip.001, so that  *)
(* pathlib's .suffix is the last segment and .stem the rest.  A PATH is    *)
(* the sequence of the names of its parts, relative to the root it is      *)
(* taken from; the root itself is <<>> (pathlib's Path('.')).  A ledger    *)
(* key or line is a sequence of tokens (see PathStr).                      *)
(***************************************************************************)
EXTENDS Integers, Sequences, FiniteSets, TLC

\* ---------------------------------------------------------------- bounds
\* Most files a generated source tree holds (scan specification).
MaxFiles == 4
\* Largest --max-depth value tried (the smallest is -2, see DepthArgs).
MaxDepthArg == 3
\* Volume parts the engine writes for an item larger than the volume size.
MaxParts == 3

\* ------------------------------------------------------- generic helpers
Range(s) == {s[i] : i \in DOMAIN s}

IsPrefix(p, q) == Len(p) <= Len(q) /\ SubSeq(q, 1, Len(p)) = p

\* Every enumeration of the finite set S as a sequence: the orders in which
\* a directory listing can be returned.
PermSeqs(S) ==
  {s \in [1..Cardinality(S) -> S] : \A i, j \in 1..Cardinality(S) : s[i] = s[j] => i = j}

RECURSIVE SumOver(_, _)
SumOver(S, f) ==
  IF S = {} THEN 0
  ELSE LET x == CHOOSE y \in S : TRUE IN f[x] + SumOver(S \ {x}, f)

\* ---------------------------------------------------------------- pathlib
\* PurePath.suffix: the last dot segment of the final component, '' if none.
Suffix(name) == IF Len(name) >= 2 THEN name[Len(name)] ELSE ""
\* PurePath.stem: the final component without its suffix.
Stem(name) == IF Len(name) >= 2 THEN SubSeq(name, 1, Len(name) - 1) ELSE name
\* PurePath.parent; Path('.').parent is Path('.').
Parent(path) == IF path = <<>> THEN <<>> ELSE SubSeq(path, 1, Len(path) - 1)
\* PurePath.name of a non-root path.
NameOf(path) == path[Len(path)]

\* str.lower() on the extensions of the model.
Lower(s) ==
  CASE s = ".TMP" -> ".tmp"
    [] s = ".LOG" -> ".log"
    [] s = ".ZIP" -> ".zip"
    [] OTHER -> s

\* str.strip() on the exclusion entries of the model.
StripStr(s) ==
  CASE s = " .tmp" -> ".tmp"
    [] s = " " -> ""
    [] OTHER -> s

\* -------------------------------------------------------- ChecksumLedger
\* A str is a sequence of tokens.  The tokens a key, a ledger line or a path
\* string is made of, in the order Python compares them as strings.
TokOrder ==
  << "\n", " ", " *", "# ", "# SRC", "# TGT", ".001", ".002", ".003", ".004", ".005",
     ".010", ".1", ".1000", ".999", ".TMP", ".abc", ".bak", ".md5", ".tmp", ".txt", ".zip",
     "/", "N", "SOURCE:", "TARGET:",
     "a", "b", "c", "compression_checksums", "d", "e", "n", "r", "src", "x", "y" >>
TokRank(t) == CHOOSE i \in DOMAIN TokOrder : TokOrder[i] = t

\* The comment lines generate_global_checksum_file writes (lines 453-465).
HeaderLine == <<"# ">>          \* "# 压缩过程MD5校验文件"
TimeLine == <<"# ">>            \* "# 生成时间: ..."
SourceMarkerLine == <<"# SRC">> \* "# 源文件MD5校验值"
TargetMarkerLine == <<"# TGT">> \* "# 目标文件MD5校验值"

\* str(relative_path): the names of the parts, joined with the separator.
RECURSIVE Concat(_)
Concat(ss) == IF ss = <<>> THEN <<>> ELSE Head(ss) \o Concat(Tail(ss))
RECURSIVE PathStr(_)
PathStr(path) ==
  IF path = <<>> THEN <<>>
  ELSE IF Len(path) = 1 THEN path[1]
  ELSE path[1] \o <<"/">> \o PathStr(Tail(path))

\* f"{prefix}:{relative_path}" (lines 403 and 434).
LedgerKey(prefix, pathStr) == <<prefix>> \o pathStr

\* hashlib.md5(...).hexdigest() of a file's bytes: one token per content.
HexTab == <<"h1", "h2", "h3", "h4", "h5", "h6", "h7", "h8", "h9">>
Md5(content) == IF content = 0 THEN <<"h0">> ELSE <<HexTab[content]>>

\* str comparison, as sorted() uses it.
StrLessEq(a, b) ==
  LET n == IF Len(a) < Len(b) THEN Len(a) ELSE Len(b)
      diff == {i \in 1..n : a[i] # b[i]}
  IN IF diff = {} THEN Len(a) <= Len(b)
     ELSE LET i == CHOOSE k \in diff : \A m \in diff : k <= m
          IN TokRank(a[i]) < TokRank(b[i])

RECURSIVE SortedStrs(_)
SortedStrs(S) ==
  IF S = {} THEN <<>>
  ELSE LET m == CHOOSE k \in S : \A o \in S : StrLessEq(k, o)
       IN <<m>> \o SortedStrs(S \ {m})

\* key.replace('SOURCE:', ''): every occurrence of the prefix is removed.
ReplaceAll(key, prefix) == SelectSeq(key, LAMBDA t : t # prefix)

\* Lines 459-462 and 466-469: the sorted lines "<md5> *<filename>" of one scope.
SectionLines(data, prefix) ==
  LET keys == SortedStrs({k \in DOMAIN data : k # <<>> /\ k[1] = prefix})
  IN [i \in DOMAIN keys |-> data[keys[i]] \o <<" *">> \o ReplaceAll(keys[i], prefix)]

\* '\n'.join(content).
RECURSIVE JoinLines(_)
JoinLines(lines) ==
  IF lines = <<>> THEN <<>>
  ELSE IF Len(lines) = 1 THEN lines[1]
  ELSE lines[1] \o <<"\n">> \o JoinLines(Tail(lines))

\* Lines 452-473: the text of compression_checksums.md5.
LedgerText(data) ==
  JoinLines(<<HeaderLine, TimeLine, <<>>, SourceMarkerLine>>
            \o SectionLines(data, "SOURCE:")
            \o <<<<>>, TargetMarkerLine>>
            \o SectionLines(data, "TARGET:"))

\* content.split('\n').
RECURSIVE SplitLines(_)
SplitLines(text) ==
  LET cuts == {i \in DOMAIN text : text[i] = "\n"}
  IN IF cuts = {} THEN <<text>>
     ELSE LET i == CHOOSE k \in cuts : \A m \in cuts : k <= m
          IN <<SubSeq(text, 1, i - 1)>> \o SplitLines(SubSeq(text, i + 1, Len(text)))

\* str.strip(): leading and trailing whitespace is dropped.
RECURSIVE StripLine(_)
StripLine(line) ==
  IF line = <<>> THEN line
  ELSE IF Head(line) = " " THEN StripLine(Tail(line))
  ELSE IF line[Len(line)] = " " THEN StripLine(SubSeq(line, 1, Len(line) - 1))
  ELSE line

\* line.startswith('#'), a marker substring in the line, '*' in the line.
StartsWithHash(line) == Head(line) \in {"# ", "# SRC", "# TGT"}
HasSourceMarker(line) == \E i \in DOMAIN line : line[i] = "# SRC"
HasTargetMarker(line) == \E i \in DOMAIN line : line[i] = "# TGT"
HasStar(line) == \E i \in DOMAIN line : line[i] = " *"

\* Lines 73-90: the loop of parse_md5_file over the lines from index i on;
\* maps is [section, source, target].
RECURSIVE ParseLines(_, _, _)
ParseLines(lines, i, maps) ==
  IF i > Len(lines) THEN maps
  ELSE
    LET line == StripLine(lines[i])
    IN IF line = <<>> \/ StartsWithHash(line)
       THEN ParseLines(lines, i + 1,
              IF line # <<>> /\ HasSourceMarker(line) THEN [maps EXCEPT !.section = "SOURCE"]
              ELSE IF line # <<>> /\ HasTargetMarker(line) THEN [maps EXCEPT !.section = "TARGET"]
              ELSE maps)
       ELSE IF maps.section # "" /\ HasStar(line)
       THEN LET cut == CHOOSE k \in DOMAIN line :
                         line[k] = " *" /\ \A m \in 1..(k - 1) : line[m] # " *"
                md5_hash == SubSeq(line, 1, cut - 1)
                filename == SubSeq(line, cut + 1, Len(line))
            IN ParseLines(lines, i + 1,
                 IF maps.section = "SOURCE"
                 THEN [maps EXCEPT !.source = (filename :> md5_hash) @@ @]
                 ELSE [maps EXCEPT !.target = (filename :> md5_hash) @@ @])
       ELSE ParseLines(lines, i + 1, maps)

\* parse_md5_file on the text of a ledger.
ParseLedger(text) ==
  ParseLines(SplitLines(text), 1, [section |-> "", source |-> <<>>, target |-> <<>>])

\* ------------------------------------------------------------------ state
VARIABLES
  \* the run's inputs: the source root and the command line
  srcKind,                    \* "dir", "file" (single-file root) or "missing"
  srcFiles,                   \* the files below the root: [path, content]
  srcDirs,                    \* the directories below the root, the root <<>> included
  max_depth,                  \* args.max_depth
  exclude_extensions,         \* args.exclude_extensions, split on ','
  test,                       \* args.test
  generate_md5,               \* args.generate_md5
  nparts,                     \* parts the engine writes per archive (1: one container)
  verify_md5,                 \* the decompressor's args.verify_md5
  \* the compress run
  pc,                         \* position in run()
  walkStack,                  \* directories os.walk has still to yield
  shallow_files_to_compress,
  shallow_files_to_copy,
  deep_folders,
  idx,                        \* index of the loop in progress
  success_count,
  total_count,
  outDisk,                    \* the output directory: path -> file
  checksum_data,              \* self.checksum_data: key -> md5
  cExit,                      \* exit code of the compress run, -1 while running
  cLog,                       \* what the compress run did and logged
  \* the decompress run
  dTodo,                      \* files rglob has still to yield
  dDir,                       \* the directory rglob is listing
  processed_volumes,
  source_md5_map,
  target_md5_map,
  restored,                   \* the decompressor's output directory: path -> content
  dExit,                      \* exit code of the decompress run, -1 while running
  dLog,                       \* what the decompress run did and logged
  recorded,                   \* history: the (scope, path) -> md5 entries recorded
  \* the volume-set resolvers, called on a directory of their own
  listing,                    \* the files of the directory tree glob looks in
  base_archive_path,          \* the argument of find_volume_files
  cVolumeFiles,               \* what the compressor's find_volume_files returned
  dVolumeFiles,               \* what the decompressor's find_volume_files returned
  returned,                   \* which of the two has returned
  isVolume                    \* path -> what is_volume_file returned for it

inputVars == <<srcKind, srcFiles, srcDirs, max_depth, exclude_extensions, test,
               generate_md5, nparts>>
scanVars == <<walkStack, shallow_files_to_compress, shallow_files_to_copy, deep_folders>>
compVars == <<idx, success_count, total_count, outDisk, checksum_data, cExit, cLog>>
decVars == <<verify_md5, dTodo, dDir, processed_volumes, source_md5_map, target_md5_map,
             restored, dExit, dLog, recorded>>
resolverVars == <<listing, base_archive_path, cVolumeFiles, dVolumeFiles, returned, isVolume>>
vars == <<inputVars, pc, scanVars, compVars, decVars, resolverVars>>

\* ------------------------------------------------------- PathClassifier
\* The comparison without lower(): the suffix as written against the entries
\* as written.
ShouldExcludeCaseSensitive(file_path, excl) ==
  IF excl = <<>> THEN FALSE
  ELSE Suffix(NameOf(file_path)) \in
         {StripStr(excl[i]) : i \in {j \in DOMAIN excl : StripStr(excl[j]) # ""}}
\* should_exclude: the file's lowered suffix is one of the lowered, stripped,
\* non-empty entries of the comma-separated list.
should_exclude(file_path, excl) ==
  IF excl = <<>> THEN FALSE
  ELSE LET file_ext == Lower(Suffix(NameOf(file_path)))
           exclude_list == {Lower(StripStr(excl[i])) :
                              i \in {j \in DOMAIN excl : StripStr(excl[j]) # ""}}
       IN file_ext \in exclude_list

\* The files and the sub-directories os.walk lists for directory root.
FilesIn(root) == {f \in srcFiles : Parent(f.path) = root}
SubDirs(root) == {d \in srcDirs : d # <<>> /\ Parent(d) = root}
\* The files os.walk(folder) reaches below directory d (lines 381-389).
FilesUnder(d) == {f \in srcFiles : IsPrefix(d, f.path) /\ Len(f.path) > Len(d)}

\* Line 247: the depth test that makes a directory an atomic folder.
DepthLimitOffByOne(md, current_depth) == md # -1 /\ current_depth > md
DepthLimitReached(md, current_depth) == md # -1 /\ current_depth >= md

\* Line 253, dirs.clear(): the sub-directories os.walk descends into after an
\* atomic folder was emitted.
DirsKept(root) == SubDirs(root)
DirsAfterCutoff(root) == {}

\* The item dict appended to a bucket.  relIsPath is FALSE for the single-file
\* root, whose 'relative_path' is source_path.name, a str and not a Path.
FileItem(f, isPath) == [path |-> f.path, relative_path |-> f.path, relIsPath |-> isPath]

ItemsOf(fileSeq) == [i \in DOMAIN fileSeq |-> FileItem(fileSeq[i], TRUE)]

\* Lines 224-236: the root is a single file.
ScanSingleFile ==
  /\ pc = "c_scan" /\ srcKind = "file"
  /\ \E f \in srcFiles :
       IF should_exclude(f.path, exclude_extensions)
       THEN /\ shallow_files_to_copy' = <<FileItem(f, FALSE)>>
            /\ UNCHANGED shallow_files_to_compress
       ELSE /\ shallow_files_to_compress' = <<FileItem(f, FALSE)>>
            /\ UNCHANGED shallow_files_to_copy
  /\ pc' = "c_mkout"
  /\ UNCHANGED <<resolverVars, inputVars, walkStack, deep_folders, compVars, decVars>>

\* Lines 239-273: one iteration of the os.walk loop (top-down, the directory
\* listing in any order).
WalkStep ==
  /\ pc = "c_scan" /\ srcKind = "dir" /\ walkStack # <<>>
  /\ LET root == Head(walkStack)
         current_depth == Len(root)
     IN IF DepthLimitReached(max_depth, current_depth)
        THEN /\ deep_folders' = IF root \in Range(deep_folders) THEN deep_folders
                                ELSE Append(deep_folders, root)
             /\ \E dirs \in PermSeqs(DirsAfterCutoff(root)) :
                  walkStack' = dirs \o Tail(walkStack)
             /\ UNCHANGED <<shallow_files_to_compress, shallow_files_to_copy>>
        ELSE /\ \E files \in PermSeqs(FilesIn(root)), dirs \in PermSeqs(SubDirs(root)) :
                  /\ shallow_files_to_copy' = shallow_files_to_copy \o
                       ItemsOf(SelectSeq(files,
                                 LAMBDA f : should_exclude(f.path, exclude_extensions)))
                  /\ shallow_files_to_compress' = shallow_files_to_compress \o
                       ItemsOf(SelectSeq(files,
                                 LAMBDA f : ~should_exclude(f.path, exclude_extensions)))
                  /\ walkStack' = dirs \o Tail(walkStack)
             /\ UNCHANGED deep_folders
  /\ UNCHANGED <<resolverVars, inputVars, pc, compVars, decVars>>

\* Line 275: the walk is over, the three buckets are returned to run().
ScanReturn ==
  /\ pc = "c_scan" /\ srcKind = "dir" /\ walkStack = <<>>
  /\ pc' = "c_mkout"
  /\ UNCHANGED <<resolverVars, inputVars, scanVars, compVars, decVars>>

\* ---------------------------------------------------------- source trees
File(path, content) == [path |-> path, content |-> content]

\* The directories a set of files implies: every proper prefix of a path.
DirsOf(files) ==
  {<<>>} \cup UNION {{SubSeq(f.path, 1, k) : k \in 0..(Len(f.path) - 1)} : f \in files}

\* The files a generated tree of the scan specification is drawn from.
ScanCandidates ==
  { File(<< <<"n", ".tmp">> >>, 1),
    File(<< <<"r", ".txt">> >>, 2),
    File(<< <<"a">>, <<"x", ".txt">> >>, 3),
    File(<< <<"a">>, <<"N", ".TMP">> >>, 4),
    File(<< <<"a">>, <<"b">>, <<"c", ".txt">> >>, 5),
    File(<< <<"a">>, <<"b">>, <<"d">>, <<"e", ".txt">> >>, 6),
    File(<< <<"b">>, <<"x", ".txt">> >>, 7) }

\* An empty directory a tree may hold besides.
EmptyDir == << <<"e">> >>

DepthArgs == (0 - 2)..MaxDepthArg

ExclusionLists == { <<>>, <<".tmp", ".log">>, <<"tmp">>, <<".TMP", " ">> }

\* Nothing done, nothing logged yet.
CLog0 ==
  [copied |-> {}, copyFailed |-> {}, created |-> <<>>, createFailed |-> {},
   tested |-> <<>>, testFailed |-> {}, crashed |-> FALSE, config |-> FALSE,
   summary |-> FALSE, probe |-> "none", mkdir |-> FALSE]
DLog0 ==
  [calls |-> <<>>, extractFailed |-> {}, skipped |-> {}, copied |-> {}, copyFailed |-> {},
   verified |-> {}, mismatches |-> {}, crashed |-> FALSE, config |-> FALSE,
   sourceMissing |-> FALSE, probe |-> "none", mkdir |-> FALSE]

\* The variables of the two runs after construction and parse_arguments.
RunState(start, kind, files, dirs, md, excl, t, g, n) ==
  /\ srcKind = kind /\ srcFiles = files /\ srcDirs = dirs
  /\ max_depth = md /\ exclude_extensions = excl
  /\ test = t /\ generate_md5 = g /\ nparts = n
  /\ verify_md5 = FALSE
  /\ pc = start
  /\ walkStack = IF kind = "dir" THEN << <<>> >> ELSE <<>>
  /\ shallow_files_to_compress = <<>>
  /\ shallow_files_to_copy = <<>>
  /\ deep_folders = <<>>
  /\ idx = 0 /\ success_count = 0 /\ total_count = 0
  /\ outDisk = <<>>
  /\ checksum_data = <<>>
  /\ cExit = -1
  /\ cLog = CLog0
  /\ dTodo = {} /\ dDir = <<>>
  /\ processed_volumes = {}
  /\ source_md5_map = <<>>
  /\ target_md5_map = <<>>
  /\ restored = <<>>
  /\ dExit = -1
  /\ dLog = DLog0
  /\ recorded = <<>>

\* The state after construction and parse_arguments, run() about to start at
\* position start, for a root of the given kind; no resolver called by hand.
InitRun(start, kind, files, dirs, md, excl, t, g, n) ==
  /\ RunState(start, kind, files, dirs, md, excl, t, g, n)
  /\ listing = {} /\ base_archive_path = <<>>
  /\ cVolumeFiles = <<>> /\ dVolumeFiles = <<>>
  /\ returned = {} /\ isVolume = <<>>

\* scan_and_organize_files on every tree of at most MaxFiles files, every
\* max depth and every exclusion list; a single-file root besides.
InitScan ==
  \E md \in DepthArgs, excl \in ExclusionLists :
    \/ \E files \in SUBSET ScanCandidates, extra \in SUBSET {EmptyDir} :
         /\ Cardinality(files) <= MaxFiles
         /\ InitRun("c_scan", "dir", files, DirsOf(files) \cup extra, md, excl,
                    FALSE, FALSE, 1)
    \/ \E f \in {c \in ScanCandidates : Len(c.path) = 1} :
         InitRun("c_scan", "file", {f}, {}, md, excl, FALSE, FALSE, 1)

NextScan == ScanSingleFile \/ WalkStep \/ ScanReturn

SpecScan == InitScan /\ [][NextScan]_vars

\* ------------------------------------------------ claims on the classifier
\* The scan has returned its three buckets.
ScanDone == pc = "c_mkout"

\* In how many places of the three buckets file f is found.
TimesIn(items, f) == Cardinality({i \in DOMAIN items : items[i].path = f.path})
TimesUnder(folders, f) == Cardinality({i \in DOMAIN folders : f \in FilesUnder(folders[i])})

\* C1: once the scan has returned, every file of the tree is in exactly one of
\* the compress bucket, the copy bucket and the subtree of exactly one atomic
\* folder; the bucket sizes and the files under the atomic folders add up to
\* the number of files; no atomic folder lies inside (or repeats) another.
C1_Partition ==
  ScanDone =>
    /\ \A f \in srcFiles :
         TimesIn(shallow_files_to_compress, f) + TimesIn(shallow_files_to_copy, f)
           + TimesUnder(deep_folders, f) = 1
    /\ Len(shallow_files_to_compress) + Len(shallow_files_to_copy)
         + SumOver(DOMAIN deep_folders,
                   [i \in DOMAIN deep_folders |-> Cardinality(FilesUnder(deep_folders[i]))])
       = Cardinality(srcFiles)
    /\ \A i, j \in DOMAIN deep_folders :
         i # j => ~IsPrefix(deep_folders[i], deep_folders[j])

\* A scan that filled all three buckets, one atomic folder holding several files.
C1_Witness ==
  /\ ScanDone
  /\ shallow_files_to_compress # <<>>
  /\ shallow_files_to_copy # <<>>
  /\ \E i \in DOMAIN deep_folders : Cardinality(FilesUnder(deep_folders[i])) >= 2

\* C9: for a directory root and a max depth d >= 0, the atomic folders are
\* exactly the directories at depth d, and no file whose directory is at depth
\* >= d is in the compress or the copy bucket; with d = 0 the root is the one
\* atomic folder and both buckets are empty.
C9_DepthCutoff ==
  (ScanDone /\ srcKind = "dir" /\ max_depth >= 0) =>
    /\ Range(deep_folders) = {d \in srcDirs : Len(d) = max_depth}
    /\ \A i \in DOMAIN shallow_files_to_compress :
         Len(Parent(shallow_files_to_compress[i].path)) < max_depth
    /\ \A i \in DOMAIN shallow_files_to_copy :
         Len(Parent(shallow_files_to_copy[i].path)) < max_depth
    /\ max_depth = 0 =>
         /\ deep_folders = << <<>> >>
         /\ shallow_files_to_compress = <<>> /\ shallow_files_to_copy = <<>>

\* max depth 1 and a file a/b/c.txt: it is reached through the atomic folder a
\* only, while a file of the root is classified individually.
C9_Witness ==
  /\ ScanDone /\ srcKind = "dir" /\ max_depth = 1
  /\ \E f \in srcFiles : f.path = << <<"a">>, <<"b">>, <<"c", ".txt">> >>
  /\ << <<"a">> >> \in Range(deep_folders)
  /\ shallow_files_to_compress # <<>>

\* C10: every negative max depth is unlimited: the scan of a directory root
\* emits no atomic folder and classifies every file individually.
C10_NegativeUnlimited ==
  (ScanDone /\ srcKind = "dir" /\ max_depth < 0) =>
    /\ deep_folders = <<>>
    /\ \A f \in srcFiles :
         TimesIn(shallow_files_to_compress, f) + TimesIn(shallow_files_to_copy, f) = 1

\* The file is classified on its own: the root is that file, or the file's
\* directory lies above the depth limit.
ClassifiedIndividually(f) ==
  \/ srcKind = "file"
  \/ srcKind = "dir" /\ (max_depth = -1 \/ Len(Parent(f.path)) < max_depth)

\* The extension is a member of the exclusion set, upper and lower case
\* letters taken as equal.
InExclusionSet(ext, excl) ==
  ext # "" /\ \E i \in DOMAIN excl : Lower(StripStr(excl[i])) = Lower(ext)

\* C11: once the scan has returned, every file classified individually is in
\* the copy bucket (and not the compress bucket) if its extension is, case
\* ignored, a member of the exclusion set, and in the compress bucket (and not
\* the copy bucket) otherwise.
C11_ExclusionByExtension ==
  ScanDone =>
    \A f \in srcFiles :
      ClassifiedIndividually(f) =>
        IF InExclusionSet(Suffix(NameOf(f.path)), exclude_extensions)
        THEN /\ TimesIn(shallow_files_to_copy, f) = 1
             /\ TimesIn(shallow_files_to_compress, f) = 0
        ELSE /\ TimesIn(shallow_files_to_compress, f) = 1
             /\ TimesIn(shallow_files_to_copy, f) = 0

\* Exclusion list .tmp,.log: n.tmp and a/N.TMP are copied, r.txt is compressed.
C11_Witness ==
  /\ ScanDone /\ exclude_extensions = <<".tmp", ".log">>
  /\ \E i \in DOMAIN shallow_files_to_copy :
       shallow_files_to_copy[i].path = << <<"n", ".tmp">> >>
  /\ \E i \in DOMAIN shallow_files_to_copy :
       shallow_files_to_copy[i].path = << <<"a">>, <<"N", ".TMP">> >>
  /\ \E i \in DOMAIN shallow_files_to_compress :
       shallow_files_to_compress[i].path = << <<"r", ".txt">> >>

\* An exclusion entry with the leading dot it may have been given without.
WithLeadingDot(entry) == IF entry = "tmp" THEN ".tmp" ELSE entry
Normalized(excl) == [i \in DOMAIN excl |-> WithLeadingDot(excl[i])]

\* C12: an exclusion entry without its leading dot excludes the same files as
\* the entry with it: the files the scan put in the copy bucket are those
\* whose extension is in the exclusion set once every entry has its dot.
C12_LeadingDotNormalized ==
  ScanDone =>
    \A f \in srcFiles :
      ClassifiedIndividually(f) =>
        (TimesIn(shallow_files_to_copy, f) = 1
           <=> InExclusionSet(Suffix(NameOf(f.path)), Normalized(exclude_extensions)))

\* ------------------------------------------------------- files on disk
\* A file of an output directory.  An archive part carries the entries
\* (path inside the archive, content) of the archive it belongs to.
PlainFile(content) ==
  [kind |-> "plain", content |-> content, text |-> <<>>, entries |-> {}, part |-> 0, of |-> 0]
LedgerFile(text) ==
  [kind |-> "ledger", content |-> 0, text |-> text, entries |-> {}, part |-> 0, of |-> 0]
ArchivePart(entries, part, of) ==
  [kind |-> "archive", content |-> 0, text |-> <<>>, entries |-> entries, part |-> part, of |-> of]

\* output_path / "compression_checksums.md5" (line 449).
LedgerPath == << <<"compression_checksums", ".md5">> >>

\* Lines 441-475: the output directory after generate_global_checksum_file;
\* nothing is written when there is no checksum data.
WithChecksumFile(disk, data) ==
  IF DOMAIN data = {} THEN disk
  ELSE (LedgerPath :> LedgerFile(LedgerText(data))) @@ disk

\* ------------------------------------------------ the ledger on its own
\* Most entries recorded into one ledger.
MaxEntries == 3

\* Relative paths, as str, the ledger specification records hashes for.
LedgerPaths ==
  { <<"a">>, <<"b">>, <<"a", "/", "b">>, <<"a", " *", "b">>,
    <<"SOURCE:", "a">>, <<"a", "TARGET:">>, <<"a", " ">> }

InitLedger ==
  InitRun("l_fill", "dir", {}, {<<>>}, -1, <<>>, FALSE, TRUE, 1)

\* Lines 403 and 434: self.checksum_data[f"{prefix}:{relative_path}"] = md5.
RecordHash ==
  /\ pc = "l_fill"
  /\ Cardinality(DOMAIN checksum_data) < MaxEntries
  /\ \E prefix \in {"SOURCE:", "TARGET:"}, p \in LedgerPaths, c \in 1..2 :
       /\ checksum_data' = (LedgerKey(prefix, p) :> Md5(c)) @@ checksum_data
       /\ recorded' = (<<prefix, p>> :> Md5(c)) @@ recorded
  /\ UNCHANGED <<resolverVars, inputVars, pc, scanVars, idx, success_count, total_count, outDisk,
                 cExit, cLog, verify_md5, dTodo, dDir, processed_volumes, source_md5_map,
                 target_md5_map, restored, dExit, dLog>>

\* generate_global_checksum_file(output_path).
GenerateChecksumFile ==
  /\ pc = "l_fill"
  /\ outDisk' = WithChecksumFile(outDisk, checksum_data)
  /\ pc' = "l_written"
  /\ UNCHANGED <<resolverVars, inputVars, scanVars, idx, success_count, total_count, checksum_data,
                 cExit, cLog, decVars>>

\* parse_md5_file(md5_file_path); open() raises when the file is absent and
\* the maps are left as they were.
ParseMd5File ==
  /\ pc = "l_written"
  /\ IF LedgerPath \in DOMAIN outDisk
     THEN LET maps == ParseLedger(outDisk[LedgerPath].text)
          IN /\ source_md5_map' = maps.source
             /\ target_md5_map' = maps.target
     ELSE UNCHANGED <<source_md5_map, target_md5_map>>
  /\ pc' = "l_parsed"
  /\ UNCHANGED <<resolverVars, inputVars, scanVars, compVars, verify_md5, dTodo, dDir, processed_volumes,
                 restored, dExit, dLog, recorded>>

NextLedger == RecordHash \/ GenerateChecksumFile \/ ParseMd5File

SpecLedger == InitLedger /\ [][NextLedger]_vars

\* The entries recorded under one scope, path -> md5.
RecordedOf(prefix) ==
  LET ps == {k[2] : k \in {q \in DOMAIN recorded : q[1] = prefix}}
  IN [p \in ps |-> recorded[<<prefix, p>>]]

\* C8: after persisting and re-parsing, the source map holds exactly the
\* recorded SOURCE entries and the target map exactly the recorded TARGET
\* entries, path for path and hash for hash.
C8_LedgerRoundTrip ==
  pc = "l_parsed" =>
    /\ source_md5_map = RecordedOf("SOURCE:")
    /\ target_md5_map = RecordedOf("TARGET:")

\* ------------------------------------------------------ VolumeSetResolver
\* The suffixes '.NNN' whose text after the dot is all digits.
DigitSuffixes == {".001", ".002", ".003", ".004", ".005", ".010", ".1", ".999", ".1000"}
\* suffix and suffix[1:].isdigit()
SuffixIsDigits(s) == s \in DigitSuffixes
\* len(suffix), the dot included; every other extension of the model has 3 letters.
SuffixLen(s) ==
  CASE s = "" -> 0
    [] s = ".1" -> 2
    [] s = ".1000" -> 5
    [] OTHER -> 4
\* int(suffix[1:])
SuffixInt(s) ==
  CASE s = ".001" -> 1 [] s = ".002" -> 2 [] s = ".003" -> 3 [] s = ".004" -> 4
    [] s = ".005" -> 5 [] s = ".010" -> 10 [] s = ".1" -> 1 [] s = ".999" -> 999
    [] s = ".1000" -> 1000

\* parent_dir.glob(f"{base_path.name}.*") over the files of a directory tree.
GlobParts(paths, base_path) ==
  {q \in paths : /\ Parent(q) = Parent(base_path)
                 /\ IsPrefix(NameOf(base_path), NameOf(q))
                 /\ Len(NameOf(q)) > Len(NameOf(base_path))}

\* volume_files.sort() on (volume_num, file_path), then the paths.
RECURSIVE SortedByVolume(_)
SortedByVolume(S) ==
  IF S = {} THEN <<>>
  ELSE LET m == CHOOSE q \in S : \A o \in S :
                  \/ SuffixInt(Suffix(NameOf(q))) < SuffixInt(Suffix(NameOf(o)))
                  \/ /\ SuffixInt(Suffix(NameOf(q))) = SuffixInt(Suffix(NameOf(o)))
                     /\ StrLessEq(PathStr(q), PathStr(o))
       IN <<m>> \o SortedByVolume(S \ {m})

\* AdvancedVolumeCompressor.find_volume_files (lines 93-120).
CFindVolumeFiles(paths, base_path) ==
  SortedByVolume({q \in GlobParts(paths, base_path) :
                    LET suffix == Suffix(NameOf(q))
                    IN SuffixIsDigits(suffix) /\ SuffixLen(suffix) >= 4})

\* ------------------------------------------------------------ ArchiveMapper
\* source_path.name: the name of the source root directory.
RootName == <<"src">>

\* Lines 306-320: output_subdir / output_file_name of a unit.
ArchivePathOf(item_path, is_folder) ==
  IF is_folder
  THEN Parent(item_path) \o <<(IF item_path = <<>> THEN RootName ELSE NameOf(item_path)) \o <<".zip">>>>
  ELSE Parent(item_path) \o <<Stem(NameOf(item_path)) \o <<".zip">>>>

\* What the engine stores for a unit: a file under its own name, a folder's
\* files under the folder's name (the unit's path prefix is stripped).
EntriesOf(item_path, is_folder) ==
  IF is_folder
  THEN LET fname == IF item_path = <<>> THEN RootName ELSE NameOf(item_path)
       IN {<< <<fname>> \o SubSeq(f.path, Len(item_path) + 1, Len(f.path)), f.content >> :
              f \in FilesUnder(item_path)}
  ELSE {<< <<NameOf(f.path)>>, f.content >> : f \in {g \in srcFiles : g.path = item_path}}

\* The numbered suffix of part i.
VolSuffix == <<".001", ".002", ".003", ".004", ".005">>

\* The engine in archive-creation mode, exit code 0: one container, or n
\* numbered parts, written over whatever is there (-aoa, -v).
EngineCreate(disk, archive_path, entries, n) ==
  IF n = 1
  THEN (archive_path :> ArchivePart(entries, 1, 1)) @@ disk
  ELSE [q \in {Parent(archive_path) \o <<NameOf(archive_path) \o <<VolSuffix[i]>>>> : i \in 1..n}
          |-> ArchivePart(entries, SuffixInt(Suffix(NameOf(q))), n)] @@ disk

\* --------------------------------------------------------- the compress run
\* An uncaught exception: main() prints it and exits with code 1 (lines 583-587).
CrashCompress ==
  /\ pc' = "c_done" /\ cExit' = 1
  /\ cLog' = [cLog EXCEPT !.crashed = TRUE]

\* Lines 487-492: the source path must exist.
CheckSource ==
  /\ pc = "c_start"
  /\ IF srcKind = "missing"
     THEN pc' = "c_done" /\ cExit' = 1 /\ cLog' = [cLog EXCEPT !.config = TRUE]
     ELSE pc' = "c_validate" /\ UNCHANGED <<cExit, cLog>>
  /\ UNCHANGED <<resolverVars, inputVars, scanVars, idx, success_count, total_count, outDisk,
                 checksum_data, decVars>>

\* What running the engine without arguments can come to: an exit code (0,
\* 7, another one), or no run at all (binary not found, not executable, no
\* answer within the timeout).
ProbeOutcomes == {"rc0", "rc7", "rcOther", "notfound", "notexec", "timeout"}
ProbeFailures == {"notfound", "notexec", "timeout"}

\* The probe taken as passed whatever came of it.
ProbeIgnored(outcome) == TRUE
\* AdvancedVolumeCompressor.validate_7z (lines 79-91): exit code 0 or 7.
validate_7z(outcome) == outcome \in {"rc0", "rc7"}

\* Lines 495-499: the engine probe; its failure is logged and ends the run.
Validate7z ==
  /\ pc = "c_validate"
  /\ \E outcome \in ProbeOutcomes :
       IF validate_7z(outcome)
       THEN /\ pc' = "c_scan" /\ UNCHANGED cExit
            /\ cLog' = IF outcome \in ProbeFailures THEN [cLog EXCEPT !.probe = outcome]
                       ELSE cLog
       ELSE /\ pc' = "c_done" /\ cExit' = 1
            /\ cLog' = [cLog EXCEPT !.config = TRUE, !.probe = outcome]
  /\ UNCHANGED <<resolverVars, inputVars, scanVars, idx, success_count, total_count, outDisk,
                 checksum_data, decVars>>

\* Lines 511-522: output_path.mkdir; an OSError is not caught in run().
MakeOutputDir ==
  /\ pc = "c_mkout"
  /\ \E made \in BOOLEAN :
       IF made THEN /\ pc' = "c_copy" /\ idx' = 1 /\ UNCHANGED cExit
                    /\ cLog' = [cLog EXCEPT !.mkdir = TRUE]
       ELSE /\ pc' = "c_done" /\ cExit' = 1
            /\ cLog' = [cLog EXCEPT !.crashed = TRUE, !.config = TRUE]
            /\ UNCHANGED idx
  /\ UNCHANGED <<resolverVars, inputVars, scanVars, success_count, total_count, outDisk,
                 checksum_data, decVars>>

\* Lines 284-297: one iteration of the loop of copy_excluded_files.  A str
\* relative path has no .parent (line 289, outside the try); a failed copy is
\* caught and logged.
CopyExcludedFile ==
  /\ pc = "c_copy" /\ idx <= Len(shallow_files_to_copy)
  /\ LET file_info == shallow_files_to_copy[idx]
     IN IF ~file_info.relIsPath
        THEN CrashCompress /\ UNCHANGED <<idx, outDisk>>
        ELSE /\ \E copied \in BOOLEAN :
                  IF copied
                  THEN /\ outDisk' = (file_info.relative_path :>
                            PlainFile((CHOOSE f \in srcFiles : f.path = file_info.path).content))
                            @@ outDisk
                       /\ cLog' = [cLog EXCEPT !.copied = @ \cup {file_info.path}]
                  ELSE /\ UNCHANGED outDisk
                       /\ cLog' = [cLog EXCEPT !.copyFailed = @ \cup {file_info.path}]
             /\ idx' = idx + 1
             /\ UNCHANGED <<pc, cExit>>
  /\ UNCHANGED <<resolverVars, inputVars, scanVars, success_count, total_count, checksum_data, decVars>>

\* Lines 525-529: the copy loop is over; the counters are set.
CopyDone ==
  /\ pc = "c_copy" /\ idx > Len(shallow_files_to_copy)
  /\ success_count' = 0
  /\ total_count' = Len(shallow_files_to_compress) + Len(deep_folders)
  /\ pc' = "c_folders" /\ idx' = 1
  /\ UNCHANGED <<resolverVars, inputVars, scanVars, outDisk, checksum_data, cExit, cLog, decVars>>

\* Lines 345-353 with verify_volume_archive (lines 175-187): the file the
\* engine's test is run against, the first of the volume files when there are
\* any, the archive path itself otherwise.
LastVolumeTested(volume_files, output_archive_path) ==
  IF volume_files # <<>> THEN volume_files[Len(volume_files)] ELSE output_archive_path
TestTarget(volume_files, output_archive_path) ==
  IF volume_files # <<>> THEN volume_files[1] ELSE output_archive_path

\* compress_item (lines 301-364) for one unit.  The engine's archive creation
\* exits 0, exits non-zero (CalledProcessError, caught) or cannot be started
\* (OSError, not caught); with test set, the integrity test of the first
\* volume or of the single container passes or fails.
CompressItem(item_path, relIsPath, is_folder) ==
  IF ~relIsPath
  THEN CrashCompress /\ UNCHANGED <<idx, success_count, outDisk>>
  ELSE
    LET output_archive_path == ArchivePathOf(item_path, is_folder)
    IN \E create \in {"ok", "nonzero", "oserror"} :
         CASE create = "oserror" ->
                /\ pc' = "c_done" /\ cExit' = 1
                /\ cLog' = [cLog EXCEPT !.crashed = TRUE,
                                        !.createFailed = @ \cup {item_path}]
                /\ UNCHANGED <<idx, success_count, outDisk>>
           [] create = "nonzero" ->
                /\ cLog' = [cLog EXCEPT !.createFailed = @ \cup {item_path}]
                /\ idx' = idx + 1
                /\ UNCHANGED <<pc, cExit, success_count, outDisk>>
           [] create = "ok" ->
                LET disk == EngineCreate(outDisk, output_archive_path,
                                         EntriesOf(item_path, is_folder), nparts)
                    volume_files == CFindVolumeFiles(DOMAIN disk, output_archive_path)
                    target == TestTarget(volume_files, output_archive_path)
                    made == [unit |-> item_path, folder |-> is_folder,
                             archive |-> output_archive_path]
                IN /\ outDisk' = disk
                   /\ idx' = idx + 1
                   /\ UNCHANGED <<pc, cExit>>
                   /\ IF test
                      THEN \E test_success \in BOOLEAN :
                             /\ cLog' = [cLog EXCEPT
                                  !.created = Append(@, made),
                                  !.tested = Append(@, [unit |-> item_path, target |-> target]),
                                  !.testFailed = IF test_success THEN @ ELSE @ \cup {item_path}]
                             /\ success_count' = IF test_success THEN success_count + 1
                                                 ELSE success_count
                      ELSE /\ cLog' = [cLog EXCEPT !.created = Append(@, made)]
                           /\ success_count' = success_count + 1

\* Lines 533-537: one iteration of the loop over the atomic folders.
CompressFolder ==
  /\ pc = "c_folders" /\ idx <= Len(deep_folders)
  /\ CompressItem(deep_folders[idx], TRUE, TRUE)
  /\ UNCHANGED <<resolverVars, inputVars, scanVars, total_count, checksum_data, decVars>>

FoldersDone ==
  /\ pc = "c_folders" /\ idx > Len(deep_folders)
  /\ pc' = "c_files" /\ idx' = 1
  /\ UNCHANGED <<resolverVars, inputVars, scanVars, success_count, total_count, outDisk,
                 checksum_data, cExit, cLog, decVars>>

\* Lines 541-545: one iteration of the loop over the files to compress.
CompressFile ==
  /\ pc = "c_files" /\ idx <= Len(shallow_files_to_compress)
  /\ CompressItem(shallow_files_to_compress[idx].path,
                  shallow_files_to_compress[idx].relIsPath, FALSE)
  /\ UNCHANGED <<resolverVars, inputVars, scanVars, total_count, checksum_data, decVars>>

\* calculate_files_md5 over the three buckets (lines 551-553): a SOURCE entry
\* for every file of the buckets and every file below an atomic folder.
SourceChecksums ==
  LET fs == {f \in srcFiles :
               \/ \E i \in DOMAIN shallow_files_to_compress :
                    shallow_files_to_compress[i].path = f.path
               \/ \E i \in DOMAIN shallow_files_to_copy :
                    shallow_files_to_copy[i].path = f.path
               \/ \E i \in DOMAIN deep_folders : f \in FilesUnder(deep_folders[i])}
  IN [k \in {LedgerKey("SOURCE:", PathStr(f.path)) : f \in fs} |->
        Md5((CHOOSE f \in fs : LedgerKey("SOURCE:", PathStr(f.path)) = k).content)]

\* find_and_calculate_md5(output_path) (line 558): a TARGET entry for every
\* file of the output directory.
TargetChecksums(disk) ==
  [k \in {LedgerKey("TARGET:", PathStr(q)) : q \in DOMAIN disk} |->
     Md5(disk[CHOOSE q \in DOMAIN disk : LedgerKey("TARGET:", PathStr(q)) = k].content)]

\* Lines 539-560: the file loop is over; with generate_md5 the ledger is
\* built and written.
BuildLedger ==
  /\ pc = "c_files" /\ idx > Len(shallow_files_to_compress)
  /\ IF generate_md5
     THEN LET data == TargetChecksums(outDisk) @@ SourceChecksums @@ checksum_data
          IN /\ checksum_data' = data
             /\ outDisk' = WithChecksumFile(outDisk, data)
     ELSE UNCHANGED <<checksum_data, outDisk>>
  /\ pc' = "c_summary"
  /\ UNCHANGED <<resolverVars, inputVars, scanVars, idx, success_count, total_count, cExit, cLog, decVars>>

\* Lines 562-573: the summary and the exit code.
Summary ==
  /\ pc = "c_summary"
  /\ cExit' = IF success_count = total_count THEN 0 ELSE 1
  /\ cLog' = [cLog EXCEPT !.summary = TRUE]
  /\ pc' = "c_done"
  /\ UNCHANGED <<resolverVars, inputVars, scanVars, idx, success_count, total_count, outDisk,
                 checksum_data, decVars>>

NextCompress ==
  \/ CheckSource \/ Validate7z
  \/ ScanSingleFile \/ WalkStep \/ ScanReturn
  \/ MakeOutputDir \/ CopyExcludedFile \/ CopyDone
  \/ CompressFolder \/ FoldersDone \/ CompressFile
  \/ BuildLedger \/ Summary

\* The files a source tree of the run specifications is drawn from.
RunCandidates ==
  { File(<< <<"a">>, <<"x", ".txt">> >>, 1),
    File(<< <<"b">>, <<"x", ".txt">> >>, 2),
    File(<< <<"n", ".tmp">> >>, 3),
    File(<< <<"r">> >>, 4),
    File(<< <<"r", ".txt">> >>, 5),
    File(<< <<"a", ".txt">> >>, 6) }

\* Most files a source tree of the run specifications holds.
MaxRunFiles == 2

RunDepthArgs == {-1, 0, 1}

InitCompress ==
  \E t \in BOOLEAN, g \in BOOLEAN, n \in {1, MaxParts} :
    \/ \E files \in SUBSET RunCandidates, md \in RunDepthArgs :
         /\ Cardinality(files) <= MaxRunFiles
         /\ InitRun("c_start", "dir", files, DirsOf(files), md, <<".tmp", ".log">>, t, g, n)
    \/ \E f \in {c \in RunCandidates : Len(c.path) = 1} :
         InitRun("c_start", "file", {f}, {}, -1, <<".tmp", ".log">>, t, g, n)
    \/ InitRun("c_start", "missing", {}, {}, -1, <<".tmp", ".log">>, t, g, n)

SpecCompress == InitCompress /\ [][NextCompress]_vars

\* ------------------------------------------------------- ExtractionPlanner
\* is_volume_file (lines 127-132) and is_zip_file (lines 134-136) on a name.
is_volume_file(name) ==
  SuffixLen(Suffix(name)) = 4 /\ SuffixIsDigits(Suffix(name))
is_zip_file(name) == Lower(Suffix(name)) = ".zip"

\* SimpleVolumeDecompressor.find_volume_files (lines 138-156).
DFindVolumeFiles(paths, base_path) ==
  SortedByVolume({q \in GlobParts(paths, base_path) : is_volume_file(NameOf(q))})

\* The files a directory handed to the resolvers is drawn from: parts of x.zip
\* with suffixes of one, three and four digits, files that are no parts, a
\* part of another archive and a part in another directory.
ListingCandidates ==
  { << <<"x", ".zip", ".001">> >>, << <<"x", ".zip", ".002">> >>,
    << <<"x", ".zip", ".010">> >>, << <<"x", ".zip", ".999">> >>,
    << <<"x", ".zip", ".1000">> >>, << <<"x", ".zip", ".1">> >>,
    << <<"x", ".zip", ".abc">> >>, << <<"x", ".zip">> >>,
    << <<"x", ".zip", ".bak", ".001">> >>, << <<"y", ".zip", ".001">> >>,
    << <<"d">>, <<"x", ".zip", ".003">> >> }

BasePaths == { << <<"x", ".zip">> >>, << <<"y", ".zip">> >>, << <<"z", ".zip">> >> }

MaxListing == 4

\* Both classes constructed, a directory of at most MaxListing files on disk.
InitResolver ==
  \E files \in SUBSET ListingCandidates, base \in BasePaths :
    /\ Cardinality(files) <= MaxListing
    /\ RunState("v_listed", "dir", {}, {<<>>}, -1, <<>>, FALSE, FALSE, 1)
    /\ listing = files /\ base_archive_path = base
    /\ cVolumeFiles = <<>> /\ dVolumeFiles = <<>>
    /\ returned = {} /\ isVolume = <<>>

\* A call of AdvancedVolumeCompressor.find_volume_files(base_archive_path).
CompressorFindVolumeFiles ==
  /\ pc = "v_listed" /\ "compressor" \notin returned
  /\ cVolumeFiles' = CFindVolumeFiles(listing, base_archive_path)
  /\ returned' = returned \cup {"compressor"}
  /\ UNCHANGED <<inputVars, pc, scanVars, compVars, decVars, listing, base_archive_path,
                 dVolumeFiles, isVolume>>

\* A call of SimpleVolumeDecompressor.find_volume_files(base_archive_path).
DecompressorFindVolumeFiles ==
  /\ pc = "v_listed" /\ "decompressor" \notin returned
  /\ dVolumeFiles' = DFindVolumeFiles(listing, base_archive_path)
  /\ returned' = returned \cup {"decompressor"}
  /\ UNCHANGED <<inputVars, pc, scanVars, compVars, decVars, listing, base_archive_path,
                 cVolumeFiles, isVolume>>

\* A call of SimpleVolumeDecompressor.is_volume_file on a file of the directory.
IsVolumeFile ==
  /\ pc = "v_listed"
  /\ \E q \in listing \ DOMAIN isVolume :
       isVolume' = [p \in DOMAIN isVolume \cup {q} |->
                      IF p = q THEN is_volume_file(NameOf(q)) ELSE isVolume[p]]
  /\ UNCHANGED <<inputVars, pc, scanVars, compVars, decVars, listing, base_archive_path,
                 cVolumeFiles, dVolumeFiles, returned>>

NextResolver == CompressorFindVolumeFiles \/ DecompressorFindVolumeFiles \/ IsVolumeFile

SpecResolver == InitResolver /\ [][NextResolver]_vars

\* get_original_filename (lines 158-169): a name, without any directory.
get_original_filename(name) ==
  IF is_volume_file(name) THEN Stem(name)
  ELSE IF is_zip_file(name) THEN Stem(name)
  ELSE name

\* The engine can extract from the file at path q: q is an archive, it is the
\* first part, and the other parts of the set lie beside it.
Extractable(disk, q) ==
  /\ q \in DOMAIN disk
  /\ disk[q].kind = "archive" /\ disk[q].part = 1
  /\ disk[q].of > 1 =>
       \A i \in 1..disk[q].of :
         LET part == Parent(q) \o <<Stem(NameOf(q)) \o <<VolSuffix[i]>>>>
         IN part \in DOMAIN disk /\ disk[part] = ArchivePart(disk[q].entries, i, disk[q].of)

\* The engine in extract mode, exit code 0: every entry is written below the
\* destination directory, over whatever is there (-y).
EngineExtract(out, disk, q, output_dir) ==
  [t \in {output_dir \o e[1] : e \in disk[q].entries} |->
     (CHOOSE e \in disk[q].entries : output_dir \o e[1] = t)[2]] @@ out

\* Path.exists() in the decompressor's output directory: a file or a directory.
ExistsIn(out, q) ==
  \/ q \in DOMAIN out
  \/ \E t \in DOMAIN out : IsPrefix(q, t) /\ Len(t) > Len(q)

\* verify_file_md5 (lines 111-125) on the output file at path q: the path is
\* logged as checked, and as a mismatch when the digests differ; a directory
\* cannot be opened and no digest is compared.
Verified(log, out, q, expected_md5) ==
  [log EXCEPT !.verified = @ \cup {PathStr(q)},
              !.mismatches = IF q \in DOMAIN out /\ Md5(out[q]) # expected_md5
                             THEN @ \cup {PathStr(q)} ELSE @]

\* Lines 276-282: the decompressor is run on the output directory of a compress
\* run that ended with exit code 0; the source path must exist.
DCheckSource ==
  /\ pc = "c_done" /\ cExit = 0
  /\ \E v \in BOOLEAN, exists \in BOOLEAN :
       /\ verify_md5' = v
       /\ IF exists THEN pc' = "d_validate" /\ UNCHANGED <<dExit, dLog>>
          ELSE /\ pc' = "d_done" /\ dExit' = 1
               /\ dLog' = [dLog EXCEPT !.config = TRUE, !.sourceMissing = TRUE]
  /\ UNCHANGED <<resolverVars, inputVars, scanVars, compVars, dTodo, dDir, processed_volumes, source_md5_map,
                 target_md5_map, restored, recorded>>

\* SimpleVolumeDecompressor.validate_7z (lines 42-49): the engine ran, with
\* whatever exit code.
d_validate_7z(outcome) == outcome \in {"rc0", "rc7", "rcOther"}

\* Lines 284-287: the engine probe; its failure is logged and ends the run.
DValidate7z ==
  /\ pc = "d_validate"
  /\ \E outcome \in ProbeOutcomes :
       IF d_validate_7z(outcome)
       THEN /\ pc' = "d_prepare" /\ UNCHANGED dExit
            /\ dLog' = IF outcome \in ProbeFailures THEN [dLog EXCEPT !.probe = outcome]
                       ELSE dLog
       ELSE /\ pc' = "d_done" /\ dExit' = 1
            /\ dLog' = [dLog EXCEPT !.config = TRUE, !.probe = outcome]
  /\ UNCHANGED <<resolverVars, inputVars, scanVars, compVars, verify_md5, dTodo, dDir, processed_volumes,
                 source_md5_map, target_md5_map, restored, recorded>>

\* The ledger of another run over the same paths, given with --md5-file: every
\* recorded digest differs.
OtherLedgerText == LedgerText([k \in DOMAIN checksum_data |-> Md5(9)])

\* Lines 289-308: the output directory is made (line 291); with verify_md5 the ledger is
\* found in the source tree (or given with --md5-file) and parsed, and the run
\* ends with code 1 when there is none.
DPrepare ==
  /\ pc = "d_prepare"
  /\ IF verify_md5
     THEN \/ /\ LedgerPath \in DOMAIN outDisk
             /\ \E text \in {outDisk[LedgerPath].text, OtherLedgerText} :
                  LET maps == ParseLedger(text)
                  IN /\ source_md5_map' = maps.source
                     /\ target_md5_map' = maps.target
             /\ pc' = "d_process" /\ dTodo' = DOMAIN outDisk
             /\ dLog' = [dLog EXCEPT !.mkdir = TRUE]
             /\ UNCHANGED dExit
          \/ /\ LedgerPath \notin DOMAIN outDisk
             /\ pc' = "d_done" /\ dExit' = 1
             /\ dLog' = [dLog EXCEPT !.config = TRUE, !.mkdir = TRUE]
             /\ UNCHANGED <<source_md5_map, target_md5_map, dTodo>>
     ELSE /\ pc' = "d_process" /\ dTodo' = DOMAIN outDisk
          /\ dLog' = [dLog EXCEPT !.mkdir = TRUE]
          /\ UNCHANGED <<source_md5_map, target_md5_map, dExit>>
  /\ UNCHANGED <<resolverVars, inputVars, scanVars, compVars, verify_md5, dDir, processed_volumes,
                 restored, recorded>>

\* extract_archive (lines 171-215) and the check after it (lines 255-262) for
\* the archive file item.  The engine exits 0 or non-zero; every exception is
\* caught and gives False.
ExtractAndVerify(item) ==
  LET name == NameOf(item)
      original_name == get_original_filename(name)
      extract_dir == Parent(item)
      volume_files == DFindVolumeFiles(DOMAIN outDisk, Parent(item) \o <<Stem(name)>>)
      resolved == ~is_volume_file(name) \/ volume_files # <<>>
      archive == IF is_volume_file(name)
                 THEN (IF volume_files # <<>> THEN volume_files[1] ELSE item)
                 ELSE item
  IN \E exit0 \in (IF resolved /\ Extractable(outDisk, archive) THEN BOOLEAN ELSE {FALSE}) :
       LET call == [item |-> item, archive |-> archive, dir |-> extract_dir, ok |-> exit0]
           out == IF exit0 THEN EngineExtract(restored, outDisk, archive, extract_dir)
                  ELSE restored
           extracted_file == extract_dir \o <<original_name>>
           logged == [dLog EXCEPT !.calls = Append(@, call),
                                  !.extractFailed = IF exit0 THEN @ ELSE @ \cup {item}]
       IN /\ restored' = out
          /\ dLog' = IF /\ exit0 /\ verify_md5
                        /\ ExistsIn(out, extracted_file)
                        /\ PathStr(extracted_file) \in DOMAIN source_md5_map
                     THEN Verified(logged, out, extracted_file,
                                   source_md5_map[PathStr(extracted_file)])
                     ELSE logged

\* source_path.rglob('*') (line 235) lists one directory after the other: the
\* files it may yield next are those left in the directory being listed, or,
\* when there is none, those of any other directory.
RglobNext ==
  IF \E q \in dTodo : Parent(q) = dDir THEN {q \in dTodo : Parent(q) = dDir} ELSE dTodo

\* Lines 235-272: one iteration of the loop of process_directory, the files
\* of a directory coming in any order.  shutil.copy2 is not inside any try: when
\* it raises, main() prints the exception and exits with code 1 (lines 325-327).
DProcessItem ==
  /\ pc = "d_process" /\ dTodo # {}
  /\ \E item \in RglobNext :
       LET name == NameOf(item)
       IN /\ dTodo' = dTodo \ {item} /\ dDir' = Parent(item)
          /\ IF is_zip_file(name) \/ is_volume_file(name)
             THEN IF is_volume_file(name) /\ get_original_filename(name) \in processed_volumes
                  THEN /\ dLog' = [dLog EXCEPT !.skipped = @ \cup {item}]
                       /\ UNCHANGED <<pc, dExit, processed_volumes, restored>>
                  ELSE /\ processed_volumes' =
                            IF is_volume_file(name)
                            THEN processed_volumes \cup {get_original_filename(name)}
                            ELSE processed_volumes
                       /\ ExtractAndVerify(item)
                       /\ UNCHANGED <<pc, dExit>>
             ELSE \E copied \in BOOLEAN :
                    IF copied
                    THEN LET out == (item :> outDisk[item].content) @@ restored
                             logged == [dLog EXCEPT !.copied = @ \cup {item}]
                         IN /\ restored' = out
                            /\ dLog' = IF verify_md5 /\ PathStr(item) \in DOMAIN target_md5_map
                                       THEN Verified(logged, out, item,
                                                     target_md5_map[PathStr(item)])
                                       ELSE logged
                            /\ UNCHANGED <<pc, dExit, processed_volumes>>
                    ELSE /\ pc' = "d_done" /\ dExit' = 1
                         /\ dLog' = [dLog EXCEPT !.crashed = TRUE,
                                                 !.copyFailed = @ \cup {item}]
                         /\ UNCHANGED <<processed_volumes, restored>>
  /\ UNCHANGED <<resolverVars, inputVars, scanVars, compVars, verify_md5, source_md5_map,
                 target_md5_map, recorded>>

\* Lines 313-315: process_directory returned; run() returns and the exit code
\* is 0.
DFinish ==
  /\ pc = "d_process" /\ dTodo = {}
  /\ pc' = "d_done" /\ dExit' = 0
  /\ UNCHANGED <<resolverVars, inputVars, scanVars, compVars, verify_md5, dTodo, dDir, processed_volumes,
                 source_md5_map, target_md5_map, restored, dLog, recorded>>

NextDecompress == DCheckSource \/ DValidate7z \/ DPrepare \/ DProcessItem \/ DFinish

\* A compress run, then a decompress run on its output directory.
Init == InitCompress
Next == NextCompress \/ NextDecompress
Spec == Init /\ [][Next]_vars

\* The same two runs on the smallest sources: a missing path, a single file, a
\* directory of at most MaxConfigFiles files; archives in one or two parts.
MaxConfigFiles == 1

InitConfig ==
  \E t \in BOOLEAN, g \in BOOLEAN, n \in {1, 2} :
    \/ \E files \in SUBSET RunCandidates, md \in RunDepthArgs :
         /\ Cardinality(files) <= MaxConfigFiles
         /\ InitRun("c_start", "dir", files, DirsOf(files), md, <<".tmp", ".log">>, t, g, n)
    \/ \E f \in {c \in RunCandidates : Len(c.path) = 1} :
         InitRun("c_start", "file", {f}, {}, -1, <<".tmp", ".log">>, t, g, n)
    \/ InitRun("c_start", "missing", {}, {}, -1, <<".tmp", ".log">>, t, g, n)

SpecConfig == InitConfig /\ [][Next]_vars

\* ------------------------------------------------------ claims on the runs
\* The compress run did every task: nothing failed and nothing was cut short.
CompressAllOk ==
  /\ cExit = 0 /\ cLog.summary
  /\ cLog.copyFailed = {} /\ cLog.createFailed = {} /\ cLog.testFailed = {}

\* The decompress run went through every file and nothing failed.
DecompressAllOk ==
  /\ pc = "d_done" /\ dExit = 0
  /\ dLog.extractFailed = {} /\ ~dLog.crashed

\* C2: after a compress run and a decompress run in which every engine call
\* and every copy succeeded, every source file is found in the decompressor's
\* output at its original relative path with its original content, one
\* container or several volume parts per archive alike.
C2_RoundTrip ==
  (CompressAllOk /\ DecompressAllOk) =>
    \A f \in srcFiles : f.path \in DOMAIN restored /\ restored[f.path] = f.content

\* The volume sets of the decompressor's source tree: directory and base name.
VolumeSets ==
  {<<Parent(q), Stem(NameOf(q))>> : q \in {t \in DOMAIN outDisk : is_volume_file(NameOf(t))}}

\* The lowest-numbered part of a volume set.
FirstPartOf(vs) ==
  DFindVolumeFiles(DOMAIN outDisk, vs[1] \o <<vs[2]>>)[1]

\* C3: when the decompress run has gone through every file, each volume set
\* (directory, base name) of its source tree was handed to the engine exactly
\* once, and by its lowest-numbered part.
C3_EachSetOnce ==
  (pc = "d_done" /\ dExit = 0) =>
    \A vs \in VolumeSets :
      Cardinality({i \in DOMAIN dLog.calls : dLog.calls[i].archive = FirstPartOf(vs)}) = 1

\* C4: with verification on and a ledger loaded, every file restored by a
\* successful extraction that has a SOURCE entry was hashed and compared with
\* it, a differing digest being reported; every copied passthrough file that
\* has a TARGET entry likewise.
C4_VerifiedAfterExtract ==
  verify_md5 =>
    /\ \A i \in DOMAIN dLog.calls :
         dLog.calls[i].ok =>
           \A e \in outDisk[dLog.calls[i].archive].entries :
             LET q == PathStr(dLog.calls[i].dir \o e[1])
             IN q \in DOMAIN source_md5_map =>
                  /\ q \in dLog.verified
                  /\ Md5(e[2]) # source_md5_map[q] => q \in dLog.mismatches
    /\ \A item \in dLog.copied :
         PathStr(item) \in DOMAIN target_md5_map =>
           /\ PathStr(item) \in dLog.verified
           /\ Md5(outDisk[item].content) # target_md5_map[PathStr(item)]
                => PathStr(item) \in dLog.mismatches

\* C5: a compress run that reaches its summary exits with code 0 exactly when
\* every compress task, every copy of an excluded file and (with test set)
\* every archive verification succeeded, and with a non-zero code otherwise.
C5_SuccessIffAllOk ==
  cLog.summary =>
    /\ cExit = 0 <=> (cLog.createFailed = {} /\ cLog.copyFailed = {} /\ cLog.testFailed = {})
    /\ cExit \in {0, 1}

\* C6: a decompress run exits with code 0 only when no extraction failed and
\* no volume set was left unresolved.
C6_ExitZeroOnlyIfAllOk ==
  dExit = 0 => dLog.extractFailed = {}

\* The compress run tried every unit of the scan; the decompress run visited
\* every file.
CompressWentThrough ==
  /\ cLog.summary
  /\ Len(cLog.created) + Cardinality(cLog.createFailed) = total_count
  /\ Cardinality(cLog.copied) + Cardinality(cLog.copyFailed) = Len(shallow_files_to_copy)
DecompressWentThrough == dTodo = {} /\ ~dLog.crashed

\* C7: in both directions a per-item failure (an engine call or a copy that
\* failed) is confined to its item: a run that ended after such a failure has
\* still gone through every remaining item and reached its summary.
C7_FailureConfined ==
  /\ (cExit # -1 /\ cLog.createFailed \cup cLog.copyFailed \cup cLog.testFailed # {})
       => CompressWentThrough
  /\ (dExit # -1 /\ dLog.extractFailed \cup dLog.copyFailed # {})
       => DecompressWentThrough
\* ------------------------------------------ claims on the integrity test
\* The numbered parts of an archive that lie on the disk.
PartsOnDisk(archive) ==
  {q \in DOMAIN outDisk :
     /\ Parent(q) = Parent(archive)
     /\ Stem(NameOf(q)) = NameOf(archive) /\ Len(NameOf(q)) = Len(NameOf(archive)) + 1
     /\ SuffixIsDigits(Suffix(NameOf(q)))}

\* C14: without the test flag no archive is tested; with it, the tests are
\* those of the archives created, in their order, none of a unit whose
\* creation failed; the file tested is the lowest-numbered part when the
\* archive lies on the disk in numbered parts and the container otherwise; a
\* unit whose test failed is not counted as a success, and the run that
\* reaches its summary then exits with code 1.
C14_TestAfterCreate ==
  /\ ~test => cLog.tested = <<>> /\ cLog.testFailed = {}
  /\ test =>
       /\ Len(cLog.tested) = Len(cLog.created)
       /\ \A i \in DOMAIN cLog.tested :
            LET t == cLog.tested[i]
                archive == cLog.created[i].archive
            IN /\ t.unit = cLog.created[i].unit
               /\ t.unit \notin cLog.createFailed
               /\ t.target \in DOMAIN outDisk
               /\ IF PartsOnDisk(archive) # {}
                  THEN /\ t.target \in PartsOnDisk(archive)
                       /\ \A q \in PartsOnDisk(archive) :
                            SuffixInt(Suffix(NameOf(t.target))) <= SuffixInt(Suffix(NameOf(q)))
                  ELSE t.target = archive
       /\ cLog.testFailed \subseteq {cLog.tested[i].unit : i \in DOMAIN cLog.tested}
       /\ success_count = Len(cLog.created) - Cardinality(cLog.testFailed)
       /\ (cLog.summary /\ cLog.testFailed # {}) => cExit = 1

\* A run with the test flag that split its archives in parts: one archive
\* passed its test, another failed it, and the run exited with code 1.
C14_Witness ==
  /\ test /\ nparts > 1 /\ cLog.summary /\ cExit = 1
  /\ cLog.createFailed = {} /\ cLog.copyFailed = {}
  /\ Cardinality(cLog.testFailed) = 1
  /\ Len(cLog.tested) = 2

\* ----------------------------------------- claims on configuration errors
\* The compress run found no source, or its probe could not run the engine.
CompressConfigError ==
  \/ srcKind = "missing" /\ pc # "c_start"
  \/ cLog.probe \in ProbeFailures
\* The same for the decompress run.
DecompressConfigError == dLog.sourceMissing \/ dLog.probe \in ProbeFailures

\* C15: in both directions, once the source path is found missing or the
\* engine probe has failed (binary not found, not executable, timed out), the
\* run is over with exit code 1, and it has made no output directory, created
\* or extracted no archive and copied no file.
C15_ConfigErrorBeforeWork ==
  /\ CompressConfigError =>
       /\ pc = "c_done" /\ cExit = 1
       /\ ~cLog.mkdir /\ outDisk = <<>>
       /\ cLog.created = <<>> /\ cLog.createFailed = {} /\ cLog.tested = <<>>
       /\ cLog.copied = {} /\ cLog.copyFailed = {}
  /\ DecompressConfigError =>
       /\ pc = "d_done" /\ dExit = 1
       /\ ~dLog.mkdir /\ restored = <<>>
       /\ dLog.calls = <<>> /\ dLog.extractFailed = {}
       /\ dLog.copied = {} /\ dLog.copyFailed = {}

\* A decompress run stopped by a probe that timed out, on the output of a
\* compress run that had archives to offer.
C15_Witness ==
  /\ dLog.probe = "timeout" /\ dExit = 1
  /\ cLog.created # <<>>

\* ------------------------------------------- claims on a single-file root
\* The archive of the unit lies on the disk, as one container or in parts.
ArchiveOnDisk(archive) ==
  \/ archive \in DOMAIN outDisk /\ outDisk[archive].kind = "archive"
  \/ PartsOnDisk(archive) # {}

\* C16: a compress run on a single-file root, without configuration error and
\* with no failure of the engine or of a copy, ends by its summary with exit
\* code 0; a file that is not excluded has given the one archive <stem>.zip
\* directly under the output root, an excluded one its copy there.
C16_SingleFileRoot ==
  (/\ srcKind = "file" /\ pc = "c_done" /\ ~cLog.config
   /\ cLog.createFailed = {} /\ cLog.copyFailed = {} /\ cLog.testFailed = {}) =>
    /\ cLog.summary /\ cExit = 0
    /\ \A f \in srcFiles :
         IF should_exclude(f.path, exclude_extensions)
         THEN /\ f.path \in DOMAIN outDisk /\ outDisk[f.path] = PlainFile(f.content)
              /\ cLog.created = <<>>
         ELSE /\ Len(cLog.created) = 1
              /\ cLog.created[1].archive = << Stem(NameOf(f.path)) \o <<".zip">> >>
              /\ ArchiveOnDisk(cLog.created[1].archive)

\* ----------------------------------------- claims on the archive mapping
\* The units compress_item is called for: the atomic folders and the files of
\* the compress bucket.
CompressUnits ==
  {[path |-> deep_folders[i], folder |-> TRUE] : i \in DOMAIN deep_folders}
    \cup {[path |-> shallow_files_to_compress[i].path, folder |-> FALSE] :
             i \in DOMAIN shallow_files_to_compress}

\* C18: in a compress run that went through all its units, no two different
\* units were given the same destination archive path.
C18_DistinctArchivePaths ==
  cLog.summary =>
    \A u, v \in CompressUnits :
      u # v => ArchivePathOf(u.path, u.folder) # ArchivePathOf(v.path, v.folder)

\* ------------------------------------------- claims on the volume resolvers
\* The parts of base_archive_path: the files beside it that are named as it is, plus
\* one suffix of three digits or more.
QualifyingParts ==
  {q \in listing :
     /\ Parent(q) = Parent(base_archive_path)
     /\ Stem(NameOf(q)) = NameOf(base_archive_path)
     /\ Len(NameOf(q)) = Len(NameOf(base_archive_path)) + 1
     /\ SuffixIsDigits(Suffix(NameOf(q))) /\ SuffixLen(Suffix(NameOf(q))) >= 4}

\* The sequence holds exactly the qualifying parts, each once, the integer
\* values of the suffixes ascending.
IsResolution(volume_files) ==
  /\ Range(volume_files) = QualifyingParts
  /\ Len(volume_files) = Cardinality(QualifyingParts)
  /\ \A i, j \in DOMAIN volume_files :
       i < j => SuffixInt(Suffix(NameOf(volume_files[i])))
                  < SuffixInt(Suffix(NameOf(volume_files[j])))

\* C13: find_volume_files, of the compressor and of the decompressor, returns
\* exactly the files beside its argument that are named base-name plus a purely
\* numeric suffix of at least 3 digits, in ascending order of the integer
\* value of the suffix; it returns nothing when there is no such file.
C13_FindVolumeFiles ==
  /\ "compressor" \in returned => IsResolution(cVolumeFiles)
  /\ "decompressor" \in returned => IsResolution(dVolumeFiles)

\* The compressor's find_volume_files, called on the file's name less its
\* last suffix, returns the file as a part.
CompressorAccepts(q) ==
  q \in Range(CFindVolumeFiles(listing, Parent(q) \o <<Stem(NameOf(q))>>))

\* C17: for every file, the decompressor's is_volume_file is true exactly when
\* the compressor's find_volume_files accepts the file as a part, that is when
\* its last suffix is purely numeric with at least 3 digits.
C17_SameVolumeRule ==
  \A q \in DOMAIN isVolume :
    /\ isVolume[q] <=> CompressorAccepts(q)
    /\ isVolume[q] <=> (/\ SuffixIsDigits(Suffix(NameOf(q)))
                        /\ SuffixLen(Suffix(NameOf(q))) >= 4)

====
